---- MODULE Spec2Model ----
(***************************************************************************)
(* Model of FastSudokuSolver (src/sudoku_solver.py): the 9x9 grid, the     *)
(* three arrays of occupancy bitmasks, the cancellation flag, load_board,  *)
(* the recursive MRV backtracking search and stop().  The search is        *)
(* modelled with an explicit call stack so that stop(), which another      *)
(* thread may call at any time, interleaves with it between two reads of   *)
(* the flag.                                                               *)
(***************************************************************************)
EXTENDS Integers, Sequences, FiniteSets, TLC

VARIABLES board, row_masks, col_masks, box_masks, stop_requested,
          pc, stack, ret, entry, nplaced, last, late, mrv,
          snapshot, solving, wpc, wpuzzle, running, pending, nsolves, cancel,
          bank, imported

\* the engine, the position of the search and the history kept of it
engine == <<board, row_masks, col_masks, box_masks, stop_requested,
            pc, stack, ret, entry, nplaced, last, late, mrv>>

\* the frame: its solving flag, the worker threads and the queued callbacks
ui == <<solving, wpc, wpuzzle, running, pending, nsolves, cancel>>

\* PUZZLE_BANK and the most recent import
store == <<bank, imported>>

vars == <<engine, snapshot, ui, store>>

----------------------------------------------------------------------------
(* Program constants and integer bit operations                            *)

N == 9
B == 3
Idx == 0 .. (N - 1)
Digits == 1 .. N

\* 1 << (v-1)
Bit(v) == 2 ^ (v - 1)

\* truth value of  m & bit
HasBit(m, v) == (m \div Bit(v)) % 2 = 1

\* m | bit
SetBit(m, v) == IF HasBit(m, v) THEN m ELSE m + Bit(v)

\* m & bit, written for m & ~bit
ClearBit_keep(m, v) == IF HasBit(m, v) THEN Bit(v) ELSE 0

\* m & ~bit
ClearBit(m, v) == IF HasBit(m, v) THEN m - Bit(v) ELSE m

\* (r//3) + (c//3), the factor 3 forgotten
BoxOf_nofactor(r, c) == (r \div B) + (c \div B)

\* (r//3)*3 + (c//3)
BoxOf(r, c) == (r \div B) * B + (c \div B)

EmptyBoard == [r \in Idx |-> [c \in Idx |-> 0]]
EmptyMasks == [u \in Idx |-> 0]

----------------------------------------------------------------------------
(* Characters.  A puzzle is a sequence of characters; characters are       *)
(* strings, distinct from the integers the grid holds.  Besides the ASCII  *)
(* characters the model has three characters that str.isdigit() also       *)
(* classifies as digits: ARABIC-INDIC DIGIT THREE and ZERO, which int()    *)
(* converts to 3 and 0, and SUPERSCRIPT TWO, on which int() raises.        *)

AsciiDigits == {"0", "1", "2", "3", "4", "5", "6", "7", "8", "9"}
Ar3 == "ar3"
Ar0 == "ar0"
Sup2 == "sup2"

\* ch.isdigit()
isdigit(ch) == ch \in AsciiDigits \cup {Ar3, Ar0, Sup2}

\* int(ch) raises ValueError
int_raises(ch) == ch = Sup2

\* int(ch), for the characters on which it does not raise
int(ch) ==
    CASE ch = "0" -> 0 [] ch = "1" -> 1 [] ch = "2" -> 2 [] ch = "3" -> 3
      [] ch = "4" -> 4 [] ch = "5" -> 5 [] ch = "6" -> 6 [] ch = "7" -> 7
      [] ch = "8" -> 8 [] ch = "9" -> 9 [] ch = Ar3 -> 3 [] ch = Ar0 -> 0

\* str(v) of a grid value 1..9
str(v) == <<"1", "2", "3", "4", "5", "6", "7", "8", "9">>[v]

----------------------------------------------------------------------------
(* Inputs of load_board                                                    *)

\* A solved grid, row-major.
Solved ==
    <<4,8,3,9,2,1,6,5,7,  9,6,7,3,4,5,8,2,1,  2,5,1,8,7,6,4,9,3,
      5,4,8,1,3,2,9,7,6,  7,2,9,5,6,4,1,3,8,  1,3,6,7,9,8,2,4,5,
      3,7,2,6,8,9,5,1,4,  8,1,4,2,5,3,7,6,9,  6,9,5,4,1,7,3,8,2>>

\* A second solved grid.
Solved2 ==
    <<1,2,3,4,5,6,7,8,9,  4,5,6,7,8,9,1,2,3,  7,8,9,1,2,3,4,5,6,
      2,3,1,6,7,4,8,9,5,  8,7,5,9,1,2,3,6,4,  6,9,4,5,3,8,2,1,7,
      3,1,7,2,6,5,9,4,8,  5,4,2,8,9,7,6,3,1,  9,6,8,3,4,1,5,7,2>>

\* Solved with 11 cells removed: solvable, and the search has to backtrack.
Backtrack ==
    <<0,8,0,9,2,1,6,5,0,  0,6,0,3,4,5,8,2,0,  0,5,0,8,7,6,4,9,0,
      5,4,8,1,3,2,9,7,6,  7,2,9,5,6,4,1,3,8,  1,3,6,7,9,8,2,4,5,
      0,7,0,6,8,9,5,1,4,  8,1,4,2,5,3,7,6,9,  6,9,5,4,1,7,3,8,2>>

\* Solved with 5 cells removed and one clue changed (a 6 at row 5, column 1):
\* free of conflicts, every empty cell has a candidate, no solution.
Unsat ==
    <<4,0,0,9,2,1,6,5,7,  0,0,7,3,4,5,8,2,1,  2,5,1,8,7,6,4,9,3,
      5,4,8,1,3,2,9,7,6,  7,2,9,5,6,4,1,3,8,  1,6,0,7,9,8,2,4,5,
      3,7,2,6,8,9,5,1,4,  8,1,4,2,5,3,7,6,9,  6,9,5,4,1,7,3,8,2>>

\* The puzzle string of a grid: str(v) for a filled cell, "." for an empty one
encode(g) == [k \in 1 .. Len(g) |-> IF g[k] = 0 THEN "." ELSE str(g[k])]

FullGrids == {Solved, Solved2}
Bases == {encode(Solved), encode(Solved2), encode(Backtrack), encode(Unsat)}

\* Positions (row-major, from 0) and characters of the edits made to a base
EditPosList == <<80, 78, 73, 74, 79>>
NumEditPos == 3
EditPos == {EditPosList[n] : n \in 1 .. NumEditPos}
EditChars == {".", "0", "2", "3", "8", "9", "a", Ar3, Ar0, Sup2}

\* Strings with two offending cells: an invalid character before a
\* conflicting clue, and a conflicting clue before an invalid character
Doubles == {[encode(Solved) EXCEPT ![74] = "a", ![81] = "3"],
            [encode(Solved) EXCEPT ![74] = "8", ![81] = "a"]}

\* The strings of 81 characters, and two strings of 80 and 82 characters
Inputs81 ==
    Bases
    \cup {[b EXCEPT ![p + 1] = ch] : b \in Bases, p \in EditPos, ch \in EditChars}
    \cup Doubles

Inputs ==
    Inputs81 \cup {SubSeq(encode(Solved), 1, N * N - 1), Append(encode(Unsat), ".")}

----------------------------------------------------------------------------
(* load_board                                                              *)

\* The ValueError raised, as a record: its kind (which raise statement), the
\* unit index, digit and character its message names, and the cell (r, c)
\* being processed when it was raised; NoErr stands for a normal return.
NoErr == [kind |-> "ok", idx |-> 0, v |-> 0, ch |-> "", r |-> 0, c |-> 0]
Err(kind, idx, v, ch, i, j) ==
    [kind |-> kind, idx |-> idx, v |-> v, ch |-> ch, r |-> i, c |-> j]

\* the inner loop with the column test before the row test
RECURSIVE load_row_colfirst(_, _, _, _)
load_row_colfirst(st, puzzle, i, j) ==
    IF j = N THEN st
    ELSE
      LET ch == puzzle[i * N + j + 1]
      IN IF isdigit(ch) /\ ch # "0"
         THEN IF int_raises(ch) THEN [st EXCEPT !.err = Err("int", 0, 0, ch, i, j)]
              ELSE
                LET v == int(ch)
                    bidx == BoxOf(i, j)
                IN IF ~(1 <= v /\ v <= 9)
                     THEN [st EXCEPT !.err = Err("range", 0, v, ch, i, j)]
                   ELSE IF HasBit(st.col_masks[j], v)
                     THEN [st EXCEPT !.err = Err("column", j, v, ch, i, j)]
                   ELSE IF HasBit(st.row_masks[i], v)
                     THEN [st EXCEPT !.err = Err("row", i, v, ch, i, j)]
                   ELSE IF HasBit(st.box_masks[bidx], v)
                     THEN [st EXCEPT !.err = Err("box", bidx, v, ch, i, j)]
                   ELSE load_row_colfirst(
                          [st EXCEPT !.board[i][j] = v,
                                     !.row_masks[i] = SetBit(@, v),
                                     !.col_masks[j] = SetBit(@, v),
                                     !.box_masks[bidx] = SetBit(@, v)],
                          puzzle, i, j + 1)
         ELSE IF ch \notin {".", "0"}
           THEN [st EXCEPT !.err = Err("char", 0, 0, ch, i, j)]
         ELSE load_row_colfirst(st, puzzle, i, j + 1)

\* The inner loop of load_board (for j in range(9)) in row i, from column j
\* on; st holds board, masks and the error raised, if any.
RECURSIVE load_row(_, _, _, _)
load_row(st, puzzle, i, j) ==
    IF j = N THEN st
    ELSE
      LET ch == puzzle[i * N + j + 1]
      IN IF isdigit(ch) /\ ch # "0"
         THEN IF int_raises(ch) THEN [st EXCEPT !.err = Err("int", 0, 0, ch, i, j)]
              ELSE
                LET v == int(ch)
                    bidx == BoxOf(i, j)
                IN IF ~(1 <= v /\ v <= 9)
                     THEN [st EXCEPT !.err = Err("range", 0, v, ch, i, j)]
                   ELSE IF HasBit(st.row_masks[i], v)
                     THEN [st EXCEPT !.err = Err("row", i, v, ch, i, j)]
                   ELSE IF HasBit(st.col_masks[j], v)
                     THEN [st EXCEPT !.err = Err("column", j, v, ch, i, j)]
                   ELSE IF HasBit(st.box_masks[bidx], v)
                     THEN [st EXCEPT !.err = Err("box", bidx, v, ch, i, j)]
                   ELSE load_row(
                          [st EXCEPT !.board[i][j] = v,
                                     !.row_masks[i] = SetBit(@, v),
                                     !.col_masks[j] = SetBit(@, v),
                                     !.box_masks[bidx] = SetBit(@, v)],
                          puzzle, i, j + 1)
         ELSE IF ch \notin {".", "0"}
           THEN [st EXCEPT !.err = Err("char", 0, 0, ch, i, j)]
         ELSE load_row(st, puzzle, i, j + 1)

\* the outer loop with range(8): the last row is never read
RECURSIVE load_rows_range8(_, _, _)
load_rows_range8(st, puzzle, i) ==
    IF i >= N - 1 THEN st
    ELSE LET st2 == load_row(st, puzzle, i, 0)
         IN IF st2.err # NoErr THEN st2 ELSE load_rows_range8(st2, puzzle, i + 1)

\* The outer loop of load_board (for i in range(9)) from row i on; a raised
\* error ends it.
RECURSIVE load_rows(_, _, _)
load_rows(st, puzzle, i) ==
    IF i = N THEN st
    ELSE LET st2 == load_row(st, puzzle, i, 0)
         IN IF st2.err # NoErr THEN st2 ELSE load_rows(st2, puzzle, i + 1)

\* load_board from its "Reset board" comment on: the four fields are assigned
\* fresh zeros and the loops run; this part does not read the state the
\* engine held, and is tabulated for the strings of Inputs81.
load_reset ==
    [puzzle \in Inputs81 |->
        load_rows([board |-> EmptyBoard, row_masks |-> EmptyMasks,
                   col_masks |-> EmptyMasks, box_masks |-> EmptyMasks,
                   err |-> NoErr],
                  puzzle, 0)]

\* load_board(puzzle) called in the engine state st: the state it leaves and
\* the error it raises ("ok" when it returns normally).
\* load_board without the reset of self.board: a cell the loops do not write
\* keeps what it held
load_board_keepboard(st, puzzle) ==
    IF Len(puzzle) # N * N
      THEN [st EXCEPT !.err = Err("length", 0, 0, "", 0, 0)]
      ELSE LET res == load_reset[puzzle]
           IN [res EXCEPT !.board = [r \in Idx |-> [c \in Idx |->
                    IF res.board[r][c] = 0 THEN st.board[r][c] ELSE res.board[r][c]]]]

load_board(st, puzzle) ==
    IF Len(puzzle) # N * N
      THEN [st EXCEPT !.err = Err("length", 0, 0, "", 0, 0)]
      ELSE load_reset[puzzle]

----------------------------------------------------------------------------
(* Candidate derivation and MRV cell selection                             *)

\* _get_candidates without the box mask
get_candidates_nobox(st, r, c) ==
    IF st.board[r][c] # 0 THEN <<>>
    ELSE LET used(v) == HasBit(st.row_masks[r], v) \/ HasBit(st.col_masks[c], v)
         IN SelectSeq(<<1, 2, 3, 4, 5, 6, 7, 8, 9>>, LAMBDA v : ~used(v))

\* _get_candidates with range(1, 9): the digit 9 is never a candidate
get_candidates_range8(st, r, c) ==
    IF st.board[r][c] # 0 THEN <<>>
    ELSE LET bidx == BoxOf(r, c)
             used(v) == HasBit(st.row_masks[r], v) \/ HasBit(st.col_masks[c], v)
                          \/ HasBit(st.box_masks[bidx], v)
         IN SelectSeq(<<1, 2, 3, 4, 5, 6, 7, 8>>, LAMBDA v : ~used(v))

\* _get_candidates without the row mask
get_candidates_norow(st, r, c) ==
    IF st.board[r][c] # 0 THEN <<>>
    ELSE LET bidx == BoxOf(r, c)
             used(v) == HasBit(st.col_masks[c], v) \/ HasBit(st.box_masks[bidx], v)
         IN SelectSeq(<<1, 2, 3, 4, 5, 6, 7, 8, 9>>, LAMBDA v : ~used(v))

\* _get_candidates with the digits taken from 9 down to 1
get_candidates_desc(st, r, c) ==
    IF st.board[r][c] # 0 THEN <<>>
    ELSE LET bidx == BoxOf(r, c)
             used(v) == HasBit(st.row_masks[r], v) \/ HasBit(st.col_masks[c], v)
                          \/ HasBit(st.box_masks[bidx], v)
         IN SelectSeq(<<9, 8, 7, 6, 5, 4, 3, 2, 1>>, LAMBDA v : ~used(v))

\* _get_candidates(r, c): the list of candidate digits, ascending
get_candidates(st, r, c) ==
    IF st.board[r][c] # 0 THEN <<>>
    ELSE LET bidx == BoxOf(r, c)
             used(v) == HasBit(st.row_masks[r], v) \/ HasBit(st.col_masks[c], v)
                          \/ HasBit(st.box_masks[bidx], v)
         IN SelectSeq(<<1, 2, 3, 4, 5, 6, 7, 8, 9>>, LAMBDA v : ~used(v))

\* The value None, and a cell (i, j, cands)
None == [none |-> TRUE, r |-> 0, c |-> 0, cands |-> <<>>]
Cell(i, j, cands) == [none |-> FALSE, r |-> i, c |-> j, cands |-> cands]

\* The state of the scan of _find_mrv_cell: best and best_len, and whether
\* a return statement inside the loops has been executed.
Scan(best, best_len, returned) ==
    [best |-> best, best_len |-> best_len, returned |-> returned]

\* the inner loop without the return on an empty candidate list
RECURSIVE mrv_row_noprune(_, _, _, _)
mrv_row_noprune(st, i, j, sc) ==
    IF j = N THEN sc
    ELSE IF st.board[i][j] = 0
      THEN LET cands == get_candidates(st, i, j)
           IN IF Len(cands) < sc.best_len
                THEN IF Len(cands) = 1
                       THEN Scan(Cell(i, j, cands), 1, TRUE)
                       ELSE mrv_row_noprune(st, i, j + 1,
                                            Scan(Cell(i, j, cands), Len(cands), FALSE))
              ELSE mrv_row_noprune(st, i, j + 1, sc)
    ELSE mrv_row_noprune(st, i, j + 1, sc)

\* the inner loop with <= in place of <: the last cell with the minimum wins
RECURSIVE mrv_row_le(_, _, _, _)
mrv_row_le(st, i, j, sc) ==
    IF j = N THEN sc
    ELSE IF st.board[i][j] = 0
      THEN LET cands == get_candidates(st, i, j)
           IN IF Len(cands) = 0 THEN Scan(None, sc.best_len, TRUE)
              ELSE IF Len(cands) <= sc.best_len
                THEN IF Len(cands) = 1
                       THEN Scan(Cell(i, j, cands), 1, TRUE)
                       ELSE mrv_row_le(st, i, j + 1,
                                       Scan(Cell(i, j, cands), Len(cands), FALSE))
              ELSE mrv_row_le(st, i, j + 1, sc)
    ELSE mrv_row_le(st, i, j + 1, sc)

\* The inner loop of _find_mrv_cell (for j in range(9)) in row i from column
\* j on.
RECURSIVE mrv_row(_, _, _, _)
mrv_row(st, i, j, sc) ==
    IF j = N THEN sc
    ELSE IF st.board[i][j] = 0
      THEN LET cands == get_candidates(st, i, j)
           IN IF Len(cands) = 0 THEN Scan(None, sc.best_len, TRUE)
              ELSE IF Len(cands) < sc.best_len
                THEN IF Len(cands) = 1
                       THEN Scan(Cell(i, j, cands), 1, TRUE)
                       ELSE mrv_row(st, i, j + 1,
                                    Scan(Cell(i, j, cands), Len(cands), FALSE))
              ELSE mrv_row(st, i, j + 1, sc)
    ELSE mrv_row(st, i, j + 1, sc)

\* The outer loop of _find_mrv_cell (for i in range(9)) from row i on; sc2
\* is the scan after row i, bound as a value so that the rows that follow
\* start from it and not from the expression that yields it.
RECURSIVE mrv_rows(_, _, _)
mrv_rows(st, i, sc) ==
    IF i = N THEN sc
    ELSE CHOOSE res \in {IF sc2.returned THEN sc2 ELSE mrv_rows(st, i + 1, sc2) :
                             sc2 \in {mrv_row(st, i, 0, sc)}} : TRUE

\* get_solution(): a copy of the grid
get_solution(st) == [r \in Idx |-> [c \in Idx |-> st.board[r][c]]]

\* _find_mrv_cell()
find_mrv_cell(st) == mrv_rows(st, 0, Scan(None, 10, FALSE)).best

\* the "check if solved" loop with the test inverted
no_zero_cell_inverted(st) == \A r \in Idx : \A c \in Idx : st.board[r][c] = 0

\* The "check if solved" loop of _solve_recursive: no cell holds 0
no_zero_cell(st) == \A r \in Idx : \A c \in Idx : st.board[r][c] # 0

----------------------------------------------------------------------------
(* The puzzle bank                                                         *)

\* The strings of RAW_PUZZLE_BANK, with 0 written for '.'
RawEasy1 ==
    <<5,3,0,0,7,0,0,0,0,6,0,0,1,9,5,0,0,0,0,9,8,0,0,0,0,6,0,
      8,0,0,0,6,0,0,0,3,4,0,0,8,0,3,0,0,1,7,0,0,0,2,0,0,0,6,
      0,6,0,0,0,0,2,8,0,0,0,0,4,1,9,0,0,5,0,0,0,0,8,0,0,7,9>>

RawEasy2 ==
    <<0,0,3,0,2,0,6,0,0,9,0,0,3,0,5,0,0,1,0,0,1,8,0,6,4,0,0,
      0,0,8,1,0,2,9,0,0,7,0,0,0,0,0,0,0,8,0,0,6,7,0,8,2,0,0,
      0,0,2,6,0,9,5,0,0,8,0,0,2,0,3,0,0,9,0,0,5,0,1,0,3,0,0>>

RawEasy3 ==
    <<2,0,0,0,8,0,3,0,0,0,6,0,0,7,0,0,8,4,0,3,0,5,0,0,2,0,9,
      0,0,0,1,0,5,4,0,8,0,0,0,0,0,0,0,0,0,4,0,2,7,0,6,0,0,0,
      3,0,1,0,0,7,0,4,0,7,2,0,0,4,0,0,6,0,0,0,4,0,1,0,0,0,3>>

RawMedium1 ==
    <<1,0,0,0,0,7,0,9,0,0,3,0,0,2,0,0,0,8,0,0,9,6,0,0,5,0,0,
      0,0,5,3,0,0,9,0,0,0,1,0,0,8,0,0,0,2,6,0,0,0,0,4,0,0,0,
      3,0,0,0,0,0,0,1,0,0,4,0,0,0,0,0,0,7,0,0,7,0,0,0,3,0,0>>

RawMedium2 ==
    <<6,0,0,0,0,0,8,0,3,0,4,0,7,0,0,0,0,0,0,0,0,0,0,0,0,0,0,
      0,0,0,5,0,4,0,7,0,3,0,0,0,0,0,0,2,0,0,0,0,0,5,0,0,0,0,
      0,9,0,0,1,0,0,0,0,8,0,0,0,0,0,0,0,2,0,9,0,7,0,0,0,0,0,
      5>>

RawHard1 ==
    <<8,0,0,0,0,0,0,0,0,0,0,3,6,0,0,0,0,0,0,7,0,0,9,0,2,0,0,
      0,5,0,0,0,7,0,0,0,0,0,0,0,4,5,7,0,0,0,0,0,1,0,0,0,3,0,
      0,0,1,0,0,0,0,6,8,0,0,8,5,0,0,0,1,0,0,9,0,0,0,0,4,0,0>>

RawHard2 ==
    <<0,0,0,0,7,0,0,5,0,0,0,2,1,0,0,9,0,0,1,0,0,0,2,8,0,0,0,
      0,7,0,0,0,5,0,0,1,0,0,8,5,1,0,0,0,0,0,5,0,0,0,0,3,0,0,
      0,0,0,0,0,3,0,0,6,8,0,0,0,0,0,0,0,0,2,1,0,0,0,0,0,8,7>>

\* RAW_PUZZLE_BANK: the pairs (difficulty, puzzle) in the order of the dict
RAW_PUZZLE_BANK ==
    <<<<"Easy", encode(RawEasy1)>>,
      <<"Easy", encode(RawEasy2)>>,
      <<"Easy", encode(RawEasy3)>>,
      <<"Medium", encode(RawMedium1)>>,
      <<"Medium", encode(RawMedium2)>>,
      <<"Hard", encode(RawHard1)>>,
      <<"Hard", encode(RawHard2)>>>>

\* The characters of the literal '0123456789.'
BankChars == {"0", "1", "2", "3", "4", "5", "6", "7", "8", "9", "."}

\* FastSudokuSolver(): a new engine
new_solver == [board |-> EmptyBoard, row_masks |-> EmptyMasks,
               col_masks |-> EmptyMasks, box_masks |-> EmptyMasks, err |-> NoErr]

\* test_solver = FastSudokuSolver(); test_solver.load_board(puzzle)
test_load_board(puzzle) ==
    IF Len(puzzle) # N * N
      THEN [new_solver EXCEPT !.err = Err("length", 0, 0, "", 0, 0)]
      ELSE load_rows(new_solver, puzzle, 0)

\* The test an entry of the raw bank has to pass
bank_entry_ok(puzzle) ==
    /\ Len(puzzle) = 81
    /\ \A k \in 1 .. Len(puzzle) : puzzle[k] \in BankChars
    /\ test_load_board(puzzle).err.kind = "ok"

\* sanitize_puzzle_bank(raw_dict)
sanitize_puzzle_bank(raw) ==
    LET PUZZLE_BANK == SelectSeq(raw, LAMBDA e : bank_entry_ok(e[2]))
    IN IF PUZZLE_BANK # <<>> THEN PUZZLE_BANK
       ELSE << <<"Easy", [k \in 1 .. 81 |-> "."]>> >>

\* test_solver.solve(): the search run to its end on an engine no other
\* thread can reach, so that its flag stays False
RECURSIVE solve_recursive(_)
RECURSIVE try_candidates(_, _, _)
solve_recursive(st) ==
    LET cell == find_mrv_cell(st)
    IN IF cell.none THEN no_zero_cell(st) ELSE try_candidates(st, cell, 1)

\* The for loop of _solve_recursive from the k-th candidate on
try_candidates(st, cell, k) ==
    IF k > Len(cell.cands) THEN FALSE
    ELSE LET v == cell.cands[k]
             bidx == BoxOf(cell.r, cell.c)
             placed == [st EXCEPT !.board[cell.r][cell.c] = v,
                                  !.row_masks[cell.r] = SetBit(@, v),
                                  !.col_masks[cell.c] = SetBit(@, v),
                                  !.box_masks[bidx] = SetBit(@, v)]
             undone == [placed EXCEPT !.board[cell.r][cell.c] = 0,
                                      !.row_masks[cell.r] = ClearBit(@, v),
                                      !.col_masks[cell.c] = ClearBit(@, v),
                                      !.box_masks[bidx] = ClearBit(@, v)]
         IN IF solve_recursive(placed) THEN TRUE
            ELSE try_candidates(undone, cell, k + 1)

\* str.strip(), the space being the only whitespace of the strings here
strip(s) ==
    LET idx == {k \in 1 .. Len(s) : s[k] # " "}
    IN IF idx = {} THEN <<>>
       ELSE SubSeq(s, CHOOSE a \in idx : \A b \in idx : a <= b,
                      CHOOSE a \in idx : \A b \in idx : a >= b)

\* the tests of _on_import_puzzle without the call of solve()
import_accepts_nosolve(puzzle) ==
    /\ Len(puzzle) = 81
    /\ \A k \in 1 .. Len(puzzle) : puzzle[k] \in BankChars
    /\ test_load_board(puzzle).err.kind = "ok"

\* The tests of _on_import_puzzle on the stripped text of the dialog
import_accepts(puzzle) ==
    /\ Len(puzzle) = 81
    /\ \A k \in 1 .. Len(puzzle) : puzzle[k] \in BankChars
    /\ LET test_solver == test_load_board(puzzle)
       IN test_solver.err.kind = "ok" /\ solve_recursive(test_solver)

\* The texts entered in the import dialog
ImportInputs ==
    {encode(Backtrack), encode(Unsat), Append(encode(Solved2), " "),
     <<" ">> \o [encode(Solved) EXCEPT ![N * N] = "."],
     [encode(Solved) EXCEPT ![N * N] = "3"],
     [encode(Solved) EXCEPT ![N * N] = Ar3],
     [encode(Solved) EXCEPT ![N * N] = "a"],
     SubSeq(encode(Solved), 1, N * N - 1)}

\* The outcome of the tests for each text
import_result == [s \in ImportInputs |-> import_accepts(strip(s))]

\* The raw banks the module may be started with: the one of the source, one
\* without any valid entry, one of valid and invalid entries
RawBanks ==
    {RAW_PUZZLE_BANK,
     << <<"Easy", SubSeq(encode(Solved), 1, N * N - 1)>>,
        <<"Hard", [encode(Solved) EXCEPT ![N * N] = "3"]>> >>,
     << <<"Easy", [encode(Solved) EXCEPT ![N * N] = Ar3]>>,
        <<"Easy", encode(Unsat)>>,
        <<"Medium", [encode(Solved) EXCEPT ![N * N] = "a"]>>,
        <<"Hard", encode(Backtrack)>> >>}

\* imported records the text of the most recent import
NoImport == [arg |-> <<>>, n |-> 0]

----------------------------------------------------------------------------
(* The engine                                                              *)

\* The grid and the masks as one record
State == [board |-> board, row_masks |-> row_masks, col_masks |-> col_masks,
          box_masks |-> box_masks]

\* entry records the grid and the masks at the entry of the most recent
\* solve() and the operation that preceded it, and nplaced counts the
\* placements of that solve(); both are cleared by the next load_board.
NoEntry == [board |-> EmptyBoard, row_masks |-> EmptyMasks,
            col_masks |-> EmptyMasks, box_masks |-> EmptyMasks, after |-> "none"]

\* late counts, while a solve() runs, the invocations of _solve_recursive
\* entered and the placements made with the flag already set
NoLate == [calls |-> 0, places |-> 0]

\* mrv holds the value _find_mrv_cell returned to the step just taken
NoMrv == [fresh |-> FALSE, cell |-> None]

\* snapshot is the list of lists a caller got from get_solution(): its
\* content, whether its rows are the engine's own row lists, and the number
\* of engine steps taken since
NoSnapshot == [live |-> FALSE, grid |-> EmptyBoard, alias |-> FALSE, age |-> 0]

\* The record of the most recent operation of the engine
Last(op, arg, err, value) == [op |-> op, arg |-> arg, err |-> err, ret |-> value]

\* __init__ of the engine and of the frame
Constructed ==
    /\ board = EmptyBoard
    /\ row_masks = EmptyMasks
    /\ col_masks = EmptyMasks
    /\ box_masks = EmptyMasks
    /\ stop_requested = FALSE
    /\ pc = "idle"
    /\ stack = <<>>
    /\ ret = FALSE
    /\ entry = NoEntry
    /\ nplaced = 0
    /\ last = Last("init", <<>>, NoErr, FALSE)
    /\ late = NoLate
    /\ mrv = NoMrv
    /\ snapshot = NoSnapshot
    /\ solving = FALSE
    /\ wpc = "none"
    /\ wpuzzle = <<>>
    /\ running = {}
    /\ pending = <<>>
    /\ nsolves = 0
    /\ cancel = "none"

\* The module has been imported and the frame constructed
Init ==
    /\ Constructed
    /\ bank = sanitize_puzzle_bank(RAW_PUZZLE_BANK)
    /\ imported = NoImport

\* load_board(puzzle) clearing the flag as well
do_load_board_resetflag(puzzle) ==
    /\ LET res == load_board(State @@ [err |-> NoErr], puzzle)
       IN /\ board' = res.board
          /\ row_masks' = res.row_masks
          /\ col_masks' = res.col_masks
          /\ box_masks' = res.box_masks
          /\ last' = Last("load", puzzle, res.err, FALSE)
    /\ entry' = NoEntry
    /\ nplaced' = 0
    /\ ret' = FALSE
    /\ late' = NoLate
    /\ mrv' = NoMrv
    /\ stop_requested' = FALSE
    /\ UNCHANGED <<pc, stack>>

\* load_board(puzzle)
do_load_board(puzzle) ==
    /\ LET res == load_board(State @@ [err |-> NoErr], puzzle)
       IN /\ board' = res.board
          /\ row_masks' = res.row_masks
          /\ col_masks' = res.col_masks
          /\ box_masks' = res.box_masks
          /\ last' = Last("load", puzzle, res.err, FALSE)
    /\ entry' = NoEntry
    /\ nplaced' = 0
    /\ ret' = FALSE
    /\ late' = NoLate
    /\ mrv' = NoMrv
    /\ UNCHANGED <<stop_requested, pc, stack>>

\* solve() without the reset of the flag
do_solve_noreset ==
    /\ pc' = "call"
    /\ stack' = <<>>
    /\ entry' = State @@ [after |-> IF last.op = "load" THEN last.err.kind ELSE last.op]
    /\ nplaced' = 0
    /\ late' = NoLate
    /\ mrv' = NoMrv
    /\ last' = Last("solve", <<>>, NoErr, FALSE)
    /\ UNCHANGED <<board, row_masks, col_masks, box_masks, ret, stop_requested>>

\* solve(): reset the flag and call _solve_recursive
do_solve ==
    /\ stop_requested' = FALSE
    /\ pc' = "call"
    /\ stack' = <<>>
    /\ entry' = State @@ [after |-> IF last.op = "load" THEN last.err.kind ELSE last.op]
    /\ nplaced' = 0
    /\ late' = NoLate
    /\ mrv' = NoMrv
    /\ last' = Last("solve", <<>>, NoErr, FALSE)
    /\ UNCHANGED <<board, row_masks, col_masks, box_masks, ret>>

\* the entry of an invocation without the poll of the flag
solve_recursive_entry_nopoll ==
    /\ LET cell == find_mrv_cell(State)
       IN /\ mrv' = [fresh |-> TRUE, cell |-> cell]
          /\ IF cell.none
               THEN pc' = "returned" /\ ret' = no_zero_cell(State)
                    /\ UNCHANGED stack
               ELSE pc' = "loop" /\ UNCHANGED ret
                    /\ stack' = Append(stack, [r |-> cell.r, c |-> cell.c,
                                               cands |-> cell.cands, k |-> 0])
    /\ late' = IF stop_requested THEN [late EXCEPT !.calls = @ + 1] ELSE late
    /\ UNCHANGED <<board, row_masks, col_masks, box_masks, stop_requested,
                   entry, nplaced, last>>

\* the entry of an invocation that, finding no cell, calls itself again
\* instead of returning
solve_recursive_entry_recall ==
    /\ IF stop_requested
         THEN pc' = "returned" /\ ret' = FALSE /\ mrv' = NoMrv /\ UNCHANGED stack
         ELSE LET cell == find_mrv_cell(State)
              IN /\ mrv' = [fresh |-> TRUE, cell |-> cell]
                 /\ IF cell.none
                      THEN pc' = "call" /\ UNCHANGED <<ret, stack>>
                      ELSE pc' = "loop" /\ UNCHANGED ret
                           /\ stack' = Append(stack, [r |-> cell.r, c |-> cell.c,
                                                      cands |-> cell.cands, k |-> 0])
    /\ late' = IF stop_requested THEN [late EXCEPT !.calls = @ + 1] ELSE late
    /\ UNCHANGED <<board, row_masks, col_masks, box_masks, stop_requested,
                   entry, nplaced, last>>

\* Entry of an invocation of _solve_recursive: poll the flag, select a cell
solve_recursive_entry ==
    /\ IF stop_requested
         THEN pc' = "returned" /\ ret' = FALSE /\ mrv' = NoMrv /\ UNCHANGED stack
         ELSE LET cell == find_mrv_cell(State)
              IN /\ mrv' = [fresh |-> TRUE, cell |-> cell]
                 /\ IF cell.none
                      THEN pc' = "returned" /\ ret' = no_zero_cell(State)
                           /\ UNCHANGED stack
                      ELSE pc' = "loop" /\ UNCHANGED ret
                           /\ stack' = Append(stack, [r |-> cell.r, c |-> cell.c,
                                                      cands |-> cell.cands, k |-> 0])
    /\ late' = IF stop_requested THEN [late EXCEPT !.calls = @ + 1] ELSE late
    /\ UNCHANGED <<board, row_masks, col_masks, box_masks, stop_requested,
                   entry, nplaced, last>>

\* One turn of the for loop of the innermost invocation: leave the loop when
\* the candidates are exhausted or the poll finds the flag set, otherwise go
\* on to the placement
solve_recursive_loop ==
    /\ LET f == stack[Len(stack)]
       IN IF f.k = Len(f.cands) \/ stop_requested
            THEN /\ pc' = "returned"
                 /\ ret' = FALSE
                 /\ stack' = SubSeq(stack, 1, Len(stack) - 1)
            ELSE /\ pc' = "place"
                 /\ UNCHANGED <<stack, ret>>
    /\ mrv' = NoMrv
    /\ UNCHANGED <<board, row_masks, col_masks, box_masks, stop_requested,
                   entry, nplaced, last, late>>

\* the placement followed by a second poll that returns without the undo
solve_recursive_place_repoll ==
    /\ LET f == stack[Len(stack)]
           v == f.cands[f.k + 1]
           bidx == BoxOf(f.r, f.c)
       IN /\ board' = [board EXCEPT ![f.r][f.c] = v]
          /\ row_masks' = [row_masks EXCEPT ![f.r] = SetBit(@, v)]
          /\ col_masks' = [col_masks EXCEPT ![f.c] = SetBit(@, v)]
          /\ box_masks' = [box_masks EXCEPT ![bidx] = SetBit(@, v)]
          /\ IF stop_requested
               THEN /\ pc' = "returned"
                    /\ ret' = FALSE
                    /\ stack' = SubSeq(stack, 1, Len(stack) - 1)
               ELSE /\ pc' = "call"
                    /\ stack' = [stack EXCEPT ![Len(stack)].k = f.k + 1]
                    /\ UNCHANGED ret
    /\ nplaced' = nplaced + 1
    /\ late' = IF stop_requested THEN [late EXCEPT !.places = @ + 1] ELSE late
    /\ mrv' = NoMrv
    /\ UNCHANGED <<stop_requested, entry, last>>

\* The placement of the next candidate and the recursive call
solve_recursive_place ==
    /\ LET f == stack[Len(stack)]
           v == f.cands[f.k + 1]
           bidx == BoxOf(f.r, f.c)
       IN /\ board' = [board EXCEPT ![f.r][f.c] = v]
          /\ row_masks' = [row_masks EXCEPT ![f.r] = SetBit(@, v)]
          /\ col_masks' = [col_masks EXCEPT ![f.c] = SetBit(@, v)]
          /\ box_masks' = [box_masks EXCEPT ![bidx] = SetBit(@, v)]
          /\ stack' = [stack EXCEPT ![Len(stack)].k = f.k + 1]
    /\ nplaced' = nplaced + 1
    /\ late' = IF stop_requested THEN [late EXCEPT !.places = @ + 1] ELSE late
    /\ pc' = "call"
    /\ mrv' = NoMrv
    /\ UNCHANGED <<stop_requested, ret, entry, last>>

\* The recursive call of the innermost pending invocation has returned:
\* propagate True, or undo the placement and go on with the loop
solve_recursive_returned ==
    /\ LET f == stack[Len(stack)]
           v == f.cands[f.k]
           bidx == BoxOf(f.r, f.c)
       IN IF ret
            THEN /\ stack' = SubSeq(stack, 1, Len(stack) - 1)
                 /\ UNCHANGED <<board, row_masks, col_masks, box_masks, pc>>
            ELSE /\ board' = [board EXCEPT ![f.r][f.c] = 0]
                 /\ row_masks' = [row_masks EXCEPT ![f.r] = ClearBit(@, v)]
                 /\ col_masks' = [col_masks EXCEPT ![f.c] = ClearBit(@, v)]
                 /\ box_masks' = [box_masks EXCEPT ![bidx] = ClearBit(@, v)]
                 /\ pc' = "loop"
                 /\ UNCHANGED stack
    /\ mrv' = NoMrv
    /\ UNCHANGED <<stop_requested, ret, entry, nplaced, last, late>>

\* The outermost invocation has returned: solve() returns its value
solve_returns ==
    /\ pc' = "idle"
    /\ last' = Last("solve", <<>>, NoErr, ret)
    /\ mrv' = NoMrv
    /\ late' = NoLate
    /\ UNCHANGED <<board, row_masks, col_masks, box_masks, stop_requested,
                   stack, ret, entry, nplaced>>

\* The fields of the engine object
Self == State @@ [stop_requested |-> stop_requested]

\* stop() inverting the flag
stop_toggle(self) == [self EXCEPT !.stop_requested = ~@]

\* stop() as a function of the engine object
stop(self) == [self EXCEPT !.stop_requested = TRUE]

\* a call of stop()
do_stop ==
    /\ LET res == stop(Self)
       IN /\ stop_requested' = res.stop_requested
          /\ board' = res.board
          /\ row_masks' = res.row_masks
          /\ col_masks' = res.col_masks
          /\ box_masks' = res.box_masks
    /\ UNCHANGED <<pc, stack, ret, entry, nplaced, last, late, mrv>>

----------------------------------------------------------------------------
(* The engine driven directly through its public methods, and a caller     *)
(* that keeps the list returned by get_solution()                          *)

\* The caller keeps a snapshot for at most MaxSnapAge steps of the engine
MaxSnapAge == 5

CanStep == snapshot.live => snapshot.age < MaxSnapAge

\* The puzzles loaded while the caller keeps a snapshot
SnapInputs == {encode(Solved2), encode(Unsat), Append(encode(Unsat), ".")}

\* A step of the engine that writes into the row lists it already has
SnapKept ==
    snapshot' = IF snapshot.live
                  THEN [snapshot EXCEPT !.age = @ + 1,
                                        !.grid = IF snapshot.alias THEN board' ELSE @]
                  ELSE snapshot

\* load_board binds self.board to new row lists once the length check passed
SnapRebound(puzzle) ==
    snapshot' = IF snapshot.live
                  THEN [snapshot EXCEPT !.age = @ + 1,
                                        !.alias = @ /\ Len(puzzle) # N * N]
                  ELSE snapshot

Load(puzzle) ==
    /\ pc = "idle"
    /\ CanStep
    /\ do_load_board(puzzle)
    /\ SnapRebound(puzzle)
    /\ UNCHANGED <<ui, store>>

Solve ==
    /\ pc = "idle"
    /\ CanStep
    /\ do_solve
    /\ SnapKept
    /\ UNCHANGED <<ui, store>>

Call ==
    /\ pc = "call"
    /\ CanStep
    /\ solve_recursive_entry
    /\ SnapKept
    /\ UNCHANGED <<ui, store>>

Loop ==
    /\ pc = "loop"
    /\ CanStep
    /\ solve_recursive_loop
    /\ SnapKept
    /\ UNCHANGED <<ui, store>>

Place ==
    /\ pc = "place"
    /\ CanStep
    /\ solve_recursive_place
    /\ SnapKept
    /\ UNCHANGED <<ui, store>>

Return ==
    /\ pc = "returned"
    /\ stack # <<>>
    /\ CanStep
    /\ solve_recursive_returned
    /\ SnapKept
    /\ UNCHANGED <<ui, store>>

SolveReturn ==
    /\ pc = "returned"
    /\ stack = <<>>
    /\ CanStep
    /\ solve_returns
    /\ SnapKept
    /\ UNCHANGED <<ui, store>>

\* stop(), called from another thread at any time
Stop ==
    /\ CanStep
    /\ do_stop
    /\ SnapKept
    /\ UNCHANGED <<ui, store>>

\* get_solution() returning self.board itself
GetSolution_nocopy ==
    /\ pc = "idle"
    /\ ~snapshot.live
    /\ \/ last.op = "solve" /\ last.ret
       \/ last.op = "load" /\ last.arg \in Bases
    /\ snapshot' = [live |-> TRUE, grid |-> board, alias |-> TRUE, age |-> 0]
    /\ UNCHANGED <<engine, ui, store>>

\* get_solution(), called between two operations of the engine on a solved
\* grid or on one of the base puzzles
GetSolution ==
    /\ pc = "idle"
    /\ ~snapshot.live
    /\ \/ last.op = "solve" /\ last.ret
       \/ last.op = "load" /\ last.arg \in Bases
    /\ snapshot' = [live |-> TRUE, grid |-> get_solution(State),
                    alias |-> FALSE, age |-> 0]
    /\ UNCHANGED <<engine, ui, store>>

\* The caller overwrites the first cell of the list it got; the engine's
\* grid sees the write only if the rows are shared
MutateSnapshot ==
    /\ snapshot.live
    /\ snapshot.grid[0][0] # 0
    /\ snapshot' = [snapshot EXCEPT !.grid[0][0] = 0]
    /\ board' = IF snapshot.alias THEN [board EXCEPT ![0][0] = 0] ELSE board
    /\ UNCHANGED <<row_masks, col_masks, box_masks, stop_requested, pc, stack,
                   ret, entry, nplaced, last, late, mrv, ui, store>>

\* The caller drops the list
DiscardSnapshot ==
    /\ snapshot.live
    /\ snapshot' = NoSnapshot
    /\ UNCHANGED <<engine, ui, store>>

Next ==
    \/ \E puzzle \in (IF snapshot.live THEN SnapInputs ELSE Inputs) : Load(puzzle)
    \/ Solve
    \/ Call
    \/ Loop
    \/ Place
    \/ Return
    \/ SolveReturn
    \/ Stop
    \/ GetSolution
    \/ MutateSnapshot
    \/ DiscardSnapshot

Spec == Init /\ [][Next]_vars

----------------------------------------------------------------------------
(* The engine with a thread that keeps executing solve() once it has       *)
(* called it: every step of the search that can be taken is taken          *)
(* eventually.  No list returned by get_solution() is kept here.           *)

\* The puzzles loaded: two that load, a wrong length and two failing loads
LiveInputs ==
    {encode(Backtrack), encode(Unsat), SubSeq(encode(Solved), 1, N * N - 1)}
    \cup Doubles

\* solve() is called here on grids with at most MaxLiveEmpty empty cells
MaxLiveEmpty == 11

LiveSolve ==
    /\ Cardinality({x \in Idx \X Idx : board[x[1]][x[2]] = 0}) <= MaxLiveEmpty
    /\ Solve

NextLive ==
    \/ \E puzzle \in LiveInputs : Load(puzzle)
    \/ LiveSolve
    \/ Call
    \/ Loop
    \/ Place
    \/ Return
    \/ SolveReturn
    \/ Stop

\* The steps of the thread that executes solve()
SearchNext == Call \/ Loop \/ Place \/ Return \/ SolveReturn

SpecLive == Init /\ [][NextLive]_vars /\ WF_vars(SearchNext)

----------------------------------------------------------------------------
(* The frame: the Solve, Clear and Back buttons, the worker thread started *)
(* by Solve and the completion callback it queues with wx.CallAfter.       *)
(* Worker threads are numbered in the order of their start; running is the *)
(* set of those that have not yet queued their callback, pending the queue *)
(* of callbacks, wpc the position of the worker started last.              *)

\* The number of Solve events that start a thread
MaxSolves == 2

\* The text of the 81 cells: the characters of a string, "" for an empty cell
CellsOf(s) == [k \in 1 .. N * N |-> IF s[k] = "." THEN "" ELSE s[k]]

\* The boards the user submits
UIBoards ==
    {CellsOf(encode(Backtrack)), CellsOf(encode(Unsat))}
    \cup {CellsOf([encode(Solved) EXCEPT ![N * N] = ch]) : ch \in {"3", "a", "0", Ar3}}

\* The check of the cell values in _on_solve
invalid_digit(cells) ==
    \E k \in 1 .. N * N : cells[k] # "" /\ (~isdigit(cells[k]) \/ cells[k] = "0")

\* The string _on_solve builds from the cells
puzzle_of(cells) == [k \in 1 .. N * N |-> IF cells[k] # "" THEN cells[k] ELSE "."]

\* _on_solve without the test of self.solving
OnSolve_noguard(cells) ==
    /\ nsolves < MaxSolves
    /\ IF invalid_digit(cells)
         THEN UNCHANGED ui
         ELSE /\ solving' = TRUE
              /\ nsolves' = nsolves + 1
              /\ running' = running \cup {nsolves + 1}
              /\ wpc' = "start"
              /\ wpuzzle' = puzzle_of(cells)
              /\ cancel' = "none"
              /\ UNCHANGED pending
    /\ UNCHANGED <<engine, snapshot>>
    /\ UNCHANGED store

\* _on_solve: the Solve button
OnSolve(cells) ==
    /\ nsolves < MaxSolves
    /\ IF solving \/ invalid_digit(cells)
         THEN UNCHANGED ui
         ELSE /\ solving' = TRUE
              /\ nsolves' = nsolves + 1
              /\ running' = running \cup {nsolves + 1}
              /\ wpc' = "start"
              /\ wpuzzle' = puzzle_of(cells)
              /\ cancel' = "none"
              /\ UNCHANGED pending
    /\ UNCHANGED <<engine, snapshot>>
    /\ UNCHANGED store

\* cancel tells when the frame called stop() for the worker started last:
\* not at all, only before the worker entered solve(), or while its solve()
\* was running
Requested ==
    IF wpc \in {"start", "loaded"} /\ cancel # "late" THEN "early"
    ELSE IF wpc = "search" THEN "late"
    ELSE cancel

\* _on_clear: the Clear button
OnClear ==
    /\ IF solving THEN do_stop ELSE UNCHANGED engine
    /\ cancel' = IF solving THEN Requested ELSE cancel
    /\ snapshot' = NoSnapshot
    /\ UNCHANGED <<solving, wpc, wpuzzle, running, pending, nsolves>>
    /\ UNCHANGED store

\* _on_back: the Back button
OnBack ==
    /\ IF solving THEN do_stop ELSE UNCHANGED engine
    /\ cancel' = IF solving THEN Requested ELSE cancel
    /\ snapshot' = NoSnapshot
    /\ UNCHANGED <<solving, wpc, wpuzzle, running, pending, nsolves>>
    /\ UNCHANGED store

\* wx.CallAfter(self._solve_complete), the last statement of the worker
PostComplete ==
    /\ pending' = Append(pending, nsolves)
    /\ running' = running \ {nsolves}
    /\ wpc' = "none"
    /\ UNCHANGED <<solving, wpuzzle, nsolves, cancel>>

\* _solve_worker: load_board, and the handler of its exception
WorkerLoad ==
    /\ wpc = "start"
    /\ do_load_board(wpuzzle)
    /\ IF load_board(State @@ [err |-> NoErr], wpuzzle).err.kind # "ok"
         THEN PostComplete
         ELSE wpc' = "loaded" /\ UNCHANGED <<solving, wpuzzle, running, pending, nsolves, cancel>>
    /\ UNCHANGED snapshot
    /\ UNCHANGED store

\* _solve_worker: the call of solve()
WorkerSolve ==
    /\ wpc = "loaded"
    /\ do_solve
    /\ wpc' = "search"
    /\ UNCHANGED <<solving, wpuzzle, running, pending, nsolves, cancel, snapshot>>
    /\ UNCHANGED store

WorkerCall ==
    /\ wpc = "search" /\ pc = "call"
    /\ solve_recursive_entry
    /\ UNCHANGED <<ui, snapshot>>
    /\ UNCHANGED store

WorkerLoop ==
    /\ wpc = "search" /\ pc = "loop"
    /\ solve_recursive_loop
    /\ UNCHANGED <<ui, snapshot>>
    /\ UNCHANGED store

WorkerPlace ==
    /\ wpc = "search" /\ pc = "place"
    /\ solve_recursive_place
    /\ UNCHANGED <<ui, snapshot>>
    /\ UNCHANGED store

WorkerReturn ==
    /\ wpc = "search" /\ pc = "returned" /\ stack # <<>>
    /\ solve_recursive_returned
    /\ UNCHANGED <<ui, snapshot>>
    /\ UNCHANGED store

\* _solve_worker: solve() returns
WorkerSolveReturn ==
    /\ wpc = "search" /\ pc = "returned" /\ stack = <<>>
    /\ solve_returns
    /\ wpc' = "solved"
    /\ UNCHANGED <<solving, wpuzzle, running, pending, nsolves, cancel, snapshot>>
    /\ UNCHANGED store

\* _solve_worker: keep the solution if there is one, queue the callbacks
WorkerFinish ==
    /\ wpc = "solved"
    /\ snapshot' = IF last.ret
                     THEN [live |-> TRUE, grid |-> get_solution(State),
                           alias |-> FALSE, age |-> 0]
                     ELSE snapshot
    /\ PostComplete
    /\ UNCHANGED engine
    /\ UNCHANGED store

\* _solve_complete, run by the event loop
SolveComplete ==
    /\ pending # <<>>
    /\ solving' = FALSE
    /\ pending' = Tail(pending)
    /\ UNCHANGED <<wpc, wpuzzle, running, nsolves, cancel, engine, snapshot>>
    /\ UNCHANGED store

NextUI ==
    \/ \E cells \in UIBoards : OnSolve(cells)
    \/ OnClear
    \/ OnBack
    \/ WorkerLoad
    \/ WorkerSolve
    \/ WorkerCall
    \/ WorkerLoop
    \/ WorkerPlace
    \/ WorkerReturn
    \/ WorkerSolveReturn
    \/ WorkerFinish
    \/ SolveComplete

SpecUI == Init /\ [][NextUI]_vars

----------------------------------------------------------------------------
(* The puzzle bank: the module started with one of the raw banks, and the  *)
(* imports of custom puzzles                                               *)

\* The number of imports
MaxImports == 3

InitBank ==
    /\ Constructed
    /\ \E raw \in RawBanks : bank = sanitize_puzzle_bank(raw)
    /\ imported = NoImport

\* _on_import_puzzle with the text s entered in the dialog
Import(s) ==
    /\ imported.n < MaxImports
    /\ bank' = IF import_result[s] THEN Append(bank, <<"Custom", strip(s)>>)
               ELSE bank
    /\ imported' = [arg |-> s, n |-> imported.n + 1]
    /\ UNCHANGED <<engine, snapshot, ui>>

NextBank == \E s \in ImportInputs : Import(s)

SpecBank == InitBank /\ [][NextBank]_vars

----------------------------------------------------------------------------
(* Vocabulary of the properties: the units of the grid and Sudoku          *)
(* validity, stated on the grid alone, without the masks                   *)

Cells == Idx \X Idx
RowCells(u) == {<<u, c>> : c \in Idx}
ColCells(u) == {<<r, u>> : r \in Idx}
BoxCells(u) == {<<r, c>> : r \in (3 * (u \div 3)) .. (3 * (u \div 3) + 2),
                           c \in (3 * (u % 3)) .. (3 * (u % 3) + 2)}
Units == {RowCells(u) : u \in Idx} \cup {ColCells(u) : u \in Idx}
           \cup {BoxCells(u) : u \in Idx}

\* The digits held by the cells of a unit
DigitsIn(bd, unit) == {bd[x[1]][x[2]] : x \in unit} \ {0}

\* The mask whose bits are the digits of the set D
MaskOf(D) == (IF 1 \in D THEN 1 ELSE 0) + (IF 2 \in D THEN 2 ELSE 0)
           + (IF 3 \in D THEN 4 ELSE 0) + (IF 4 \in D THEN 8 ELSE 0)
           + (IF 5 \in D THEN 16 ELSE 0) + (IF 6 \in D THEN 32 ELSE 0)
           + (IF 7 \in D THEN 64 ELSE 0) + (IF 8 \in D THEN 128 ELSE 0)
           + (IF 9 \in D THEN 256 ELSE 0)

\* No empty cell, and every unit holds each digit exactly once
ValidComplete(bd) ==
    /\ \A x \in Cells : bd[x[1]][x[2]] \in Digits
    /\ \A unit \in Units : \A v \in Digits :
          Cardinality({x \in unit : bd[x[1]][x[2]] = v}) = 1

\* Cell x may hold v as far as the filled cells of its units are concerned
Free(bd, x, v) ==
    /\ v \notin DigitsIn(bd, RowCells(x[1]))
    /\ v \notin DigitsIn(bd, ColCells(x[2]))
    /\ v \notin DigitsIn(bd, BoxCells((x[1] \div 3) * 3 + (x[2] \div 3)))

\* Some assignment of digits to the empty cells of bd, taken in row-major
\* order from cell number k on, makes bd a valid complete grid.
RECURSIVE HasCompletion(_, _)
HasCompletion(bd, k) ==
    LET open == {p \in k .. 80 : bd[p \div 9][p % 9] = 0}
    IN IF open = {} THEN ValidComplete(bd)
       ELSE \E p \in open :
               /\ \A q \in open : p <= q
               /\ \E v \in Digits :
                     /\ Free(bd, <<p \div 9, p % 9>>, v)
                     /\ HasCompletion([bd EXCEPT ![p \div 9][p % 9] = v], p + 1)

\* solve() has just returned (no operation has started since)
SolveReturned(value) == pc = "idle" /\ last.op = "solve" /\ last.ret = value

\* Grid and masks are those of the entry of the most recent solve()
AsAtEntry ==
    /\ board = entry.board
    /\ row_masks = entry.row_masks
    /\ col_masks = entry.col_masks
    /\ box_masks = entry.box_masks

----------------------------------------------------------------------------
(* Properties                                                              *)

\* C1: whenever solve() has returned True, cancelled meanwhile or not, the
\* grid has no empty cell, every row, column and box holds each digit 1-9
\* exactly once, and every cell filled at the entry of solve() still holds
\* the value it had.
C1_Soundness ==
    SolveReturned(TRUE) =>
        /\ ValidComplete(board)
        /\ \A x \in Cells : entry.board[x[1]][x[2]] # 0
                               => board[x[1]][x[2]] = entry.board[x[1]][x[2]]

\* solve() returned True after backtracking and with the flag set meanwhile
C1_Witness ==
    /\ SolveReturned(TRUE)
    /\ stop_requested
    /\ nplaced > Cardinality({x \in Cells : entry.board[x[1]][x[2]] = 0})

\* C2: if solve(), called on the state left by a successful load_board,
\* returns False and the flag was not set during the search, then no
\* assignment of digits to the empty cells completes the loaded clues into a
\* valid grid.
C2_Completeness ==
    (SolveReturned(FALSE) /\ ~stop_requested /\ entry.after = "ok")
        => ~HasCompletion(entry.board, 0)

\* an exhausted search that placed and undid several digits
C2_Witness ==
    /\ SolveReturned(FALSE) /\ ~stop_requested /\ entry.after = "ok"
    /\ nplaced >= 3
    /\ ~HasCompletion(entry.board, 0)

\* C3: if solve(), called on the state left by a successful load_board,
\* returns False with no cancellation requested, the grid and the three mask
\* arrays are exactly those the load left.
C3_RestoreOnExhaustion ==
    (SolveReturned(FALSE) /\ ~stop_requested /\ entry.after = "ok")
        => AsAtEntry

\* an exhausted search, of a puzzle with empty cells, that made placements
C3_Witness ==
    /\ SolveReturned(FALSE) /\ ~stop_requested /\ entry.after = "ok"
    /\ nplaced >= 2
    /\ \E x \in Cells : board[x[1]][x[2]] = 0
    /\ AsAtEntry

\* C4: if stop() was called while solve() was running and solve() returned
\* False, the grid and the three mask arrays are those of the entry of
\* solve(): every placement has been undone.
C4_RestoreOnCancel ==
    (SolveReturned(FALSE) /\ stop_requested) => AsAtEntry

\* a search of a solvable loaded puzzle that was cancelled after placements
C4_Witness ==
    /\ SolveReturned(FALSE) /\ stop_requested /\ entry.after = "ok"
    /\ nplaced >= 2
    /\ HasCompletion(entry.board, 0)
    /\ AsAtEntry

\* C5: in every state (after construction, after a successful or failed
\* load_board, after each placement and each undo, after solve() returned)
\* bit v-1 of row_masks[u] is set iff some cell of row u holds v, and the
\* same for col_masks and columns and for box_masks and boxes.
C5_MaskGridConsistency ==
    \A u \in Idx :
        /\ row_masks[u] = MaskOf(DigitsIn(board, RowCells(u)))
        /\ col_masks[u] = MaskOf(DigitsIn(board, ColCells(u)))
        /\ box_masks[u] = MaskOf(DigitsIn(board, BoxCells(u)))

\* the search has just undone a placement, with other placements standing
C5_Witness ==
    /\ pc = "loop"
    /\ Len(stack) >= 2
    /\ stack[Len(stack)].k >= 1
    /\ board[stack[Len(stack)].r][stack[Len(stack)].c] = 0

\* The characters of the puzzle encoding, and the digit a clue character
\* denotes
PuzzleChars == {".", "0", "1", "2", "3", "4", "5", "6", "7", "8", "9"}
ClueChars == PuzzleChars \ {".", "0"}
DigitOf(ch) == CHOOSE v \in Digits : str(v) = ch

\* Row, column and box of position p (row-major, from 0)
RowOf(p) == p \div 9
ColOf(p) == p % 9
BoxIndex(r, c) == (r \div 3) * 3 + (c \div 3)
SameUnit(p, q) ==
    \/ RowOf(p) = RowOf(q)
    \/ ColOf(p) = ColOf(q)
    \/ BoxIndex(RowOf(p), ColOf(p)) = BoxIndex(RowOf(q), ColOf(q))

\* No two clue cells of the string s that share a unit carry the same digit
NoClueClash(s) ==
    \A p \in 0 .. 80 : \A q \in (p + 1) .. 80 :
        (s[p + 1] \in ClueChars /\ s[q + 1] = s[p + 1]) => ~SameUnit(p, q)

\* load_board has just returned or raised (no operation has started since)
LoadDone == pc = "idle" /\ last.op = "load"

AllEmpty ==
    /\ board = EmptyBoard
    /\ row_masks = EmptyMasks
    /\ col_masks = EmptyMasks
    /\ box_masks = EmptyMasks

\* C6: whenever load_board fails (wrong length, invalid character or
\* conflict), whatever the engine held before, every cell is 0 and every row,
\* column and box mask is 0 afterwards.
C6_FailedLoadLeavesEmpty ==
    (LoadDone /\ last.err.kind # "ok") => AllEmpty

\* C7: load_board(s) succeeds if and only if s has exactly 81 characters,
\* each of them one of '.', '0', '1'..'9', and no two clue cells sharing a
\* row, a column or a box carry the same digit; a string of 81 characters
\* with a character outside that set fails.
C7_AcceptanceCriterion ==
    LoadDone =>
        (last.err.kind = "ok"
            <=> /\ Len(last.arg) = 81
                /\ \A k \in 1 .. 81 : last.arg[k] \in PuzzleChars
                /\ NoClueClash(last.arg))

C9_ConflictReporting ==
    (LoadDone /\ last.err.kind \in {"row", "column", "box"}) =>
        LET r == last.err.r
            c == last.err.c
            v == last.err.v
            ch == last.arg[9 * r + c + 1]
            inRow == v \in DigitsIn(board, RowCells(r))
            inCol == v \in DigitsIn(board, ColCells(c))
            inBox == v \in DigitsIn(board, BoxCells(BoxIndex(r, c)))
        IN /\ ch \in ClueChars => v = DigitOf(ch)
           /\ board[r][c] = 0
           /\ inRow \/ inCol \/ inBox
           /\ IF inRow THEN last.err.kind = "row" /\ last.err.idx = r
              ELSE IF inCol THEN last.err.kind = "column" /\ last.err.idx = c
              ELSE last.err.kind = "box" /\ last.err.idx = BoxIndex(r, c)

\* a clue rejected as a duplicate of an earlier clue of its row that lies in
\* the same box, and that a clue of its column duplicates as well
C9_Witness ==
    /\ LoadDone /\ last.err.kind = "row"
    /\ last.arg[9 * last.err.r + last.err.c + 1] \in ClueChars
    /\ \E c \in Idx : /\ board[last.err.r][c] = last.err.v
                      /\ BoxIndex(last.err.r, c) = BoxIndex(last.err.r, last.err.c)
    /\ last.err.v \in DigitsIn(board, ColCells(last.err.c))

\* The grid as a row-major sequence equals g
GridIs(bd, g) == \A x \in Cells : bd[x[1]][x[2]] = g[9 * x[1] + x[2] + 1]

\* C10, load part, common to the claim and its amended form: for a fully
\* filled valid grid g, load_board(encode(g)) succeeds and the grid is g.
LoadOfFullGrid ==
    \A g \in FullGrids :
        (LoadDone /\ last.arg = encode(g)) =>
            last.err.kind = "ok" /\ GridIs(get_solution(State), g)

\* C10 as claimed: solve() on a fully filled valid grid (freshly loaded, or
\* left by a solve() that returned True) returns True without any placement
\* and leaves grid and masks unchanged.
C10_RoundTripAsClaimed ==
    /\ LoadOfFullGrid
    /\ (pc = "idle" /\ last.op = "solve" /\ ValidComplete(entry.board)) =>
          /\ last.ret
          /\ nplaced = 0
          /\ AsAtEntry
          /\ get_solution(State) = entry.board

\* C10 amended: such a solve() makes no placement and leaves grid and masks
\* unchanged, and it returns True provided stop() was not called while it
\* was running.
C10_RoundTrip ==
    /\ LoadOfFullGrid
    /\ (pc = "idle" /\ last.op = "solve" /\ ValidComplete(entry.board)) =>
          /\ ~stop_requested => last.ret
          /\ nplaced = 0
          /\ AsAtEntry
          /\ get_solution(State) = entry.board

\* solve() of a freshly loaded full grid returned True, no stop() meanwhile
C10_Witness ==
    /\ SolveReturned(TRUE) /\ ~stop_requested
    /\ entry.after = "ok"
    /\ ValidComplete(entry.board)
    /\ GridIs(get_solution(State), Solved2)

----------------------------------------------------------------------------
(* Cancellation                                                            *)

\* A step of the running search
SearchStep == pc # "idle" /\ <<pc, stack>>' # <<pc, stack>>

\* the top frame's cell is put back to 0 and the frame stays
UndoStep ==
    /\ pc = "returned" /\ pc' = "loop" /\ stack' = stack
    /\ LET f == stack[Len(stack)]
       IN board' = [board EXCEPT ![f.r][f.c] = 0]

\* C11: once stop() has set the flag while solve() runs, at most one further
\* invocation of _solve_recursive is entered and at most one further
\* placement is made, every poll of the flag (at the entry of an invocation
\* and at the head of the loop) makes the invocation return False, no frame
\* is pushed, the grid changes only by that one placement and by the undo of
\* the frames on the stack, and for an unsatisfiable loaded puzzle solve()
\* then returns False.
C11_BoundedCancellation ==
    [][(stop_requested /\ SearchStep) =>
          /\ late'.calls <= 1 /\ late'.places <= 1
          /\ pc = "call" => (pc' = "returned" /\ ret' = FALSE /\ stack' = stack)
          /\ pc = "loop" => /\ pc' = "returned" /\ ret' = FALSE
                            /\ stack' = SubSeq(stack, 1, Len(stack) - 1)
          /\ Len(stack') <= Len(stack)
          /\ board' # board => (pc = "place" \/ UndoStep)
          /\ pc = "place" => late.places = 0 /\ late.calls = 0
          /\ (pc' = "idle" /\ entry.after = "ok" /\ ~HasCompletion(entry.board, 0))
                => (last'.ret = FALSE /\ board' = entry.board)]_vars

\* a search of an unsatisfiable loaded puzzle was cancelled between the poll
\* of the loop and the placement: one placement and one invocation followed,
\* everything is undone and False is about to be returned, although the
\* search made fewer placements than the exhaustive one makes
C11_Witness ==
    /\ pc = "returned" /\ stack = <<>> /\ ~ret /\ stop_requested
    /\ entry.after = "ok" /\ ~HasCompletion(entry.board, 0)
    /\ late.calls = 1 /\ late.places = 1
    /\ nplaced = 1
    /\ AsAtEntry

\* C12: stop() leaves the flag true whether it is called once or again, and
\* it changes neither the grid nor any row, column or box mask: in every
\* reachable state one call sets the flag and keeps the grid and the masks,
\* and a second call changes nothing that the first left.
C12_StopIdempotent ==
    LET once == stop(Self)
        twice == stop(once)
    IN /\ once.stop_requested
       /\ twice = once
       /\ once.board = board
       /\ once.row_masks = row_masks
       /\ once.col_masks = col_masks
       /\ once.box_masks = box_masks

\* stop() was called during a search that has digits placed, with the flag
\* still false, and the search goes on to undo them
C12_Witness ==
    /\ stop_requested /\ pc = "returned" /\ Len(stack) >= 2 /\ ~ret
    /\ late.places = 1
    /\ board # entry.board

----------------------------------------------------------------------------
(* The list returned by get_solution()                                     *)

Masks == <<row_masks, col_masks, box_masks>>

\* C13: the list get_solution() returns equals the grid at the time of the
\* call and the call changes nothing in the engine; afterwards a step that
\* changes the engine's grid or masks (load_board, a placement or an undo of
\* solve()) leaves the returned list as it was, and a write into the
\* returned list leaves the engine's grid, masks and flag as they were.
C13_IndependentCopy ==
    [][/\ (~snapshot.live /\ snapshot'.live) =>
             (snapshot'.grid = board /\ UNCHANGED engine)
       /\ (snapshot.live /\ snapshot'.live /\ <<board, Masks>>' # <<board, Masks>>) =>
             snapshot'.grid = snapshot.grid
       /\ (snapshot.live /\ snapshot'.live /\ snapshot'.grid # snapshot.grid) =>
             UNCHANGED <<board, Masks, stop_requested>>]_vars

\* the list was taken from a loaded puzzle, the caller has overwritten its
\* first cell and solve() has since placed a digit in the engine's grid:
\* each holds a value the other does not
C13_Witness ==
    /\ snapshot.live
    /\ pc = "call" /\ nplaced >= 1
    /\ snapshot.grid[0][0] = 0 /\ board[0][0] # 0
    /\ \E r \in Idx : \E c \in Idx : snapshot.grid[r][c] = 0 /\ board[r][c] # 0
                                       /\ <<r, c>> # <<0, 0>>

----------------------------------------------------------------------------
(* Loads and the state before them                                         *)

\* A freshly constructed engine
Fresh == [board |-> EmptyBoard, row_masks |-> EmptyMasks,
          col_masks |-> EmptyMasks, box_masks |-> EmptyMasks, err |-> NoErr]

\* C14: after a successful load_board(s), whatever the engine held before
\* (nothing, a solved grid, the remnants of a failed load or of a cancelled
\* search), the grid and the masks are those a freshly constructed engine
\* holds after load_board(s).
C14_LoadReplacesState ==
    (LoadDone /\ last.err.kind = "ok") =>
        LET fresh == load_board(Fresh, last.arg)
        IN /\ fresh.err.kind = "ok"
           /\ board = fresh.board
           /\ row_masks = fresh.row_masks
           /\ col_masks = fresh.col_masks
           /\ box_masks = fresh.box_masks

\* a puzzle with empty cells was loaded successfully into an engine that
\* held a solved grid, of which the caller took a copy just before the load
C14_Witness ==
    /\ LoadDone /\ last.err.kind = "ok"
    /\ snapshot.live /\ snapshot.age = 1
    /\ ValidComplete(snapshot.grid)
    /\ \E r \in Idx : \E c \in Idx : board[r][c] = 0
    /\ \E r \in Idx : \E c \in Idx : board[r][c] # 0 /\ board[r][c] # snapshot.grid[r][c]

----------------------------------------------------------------------------
(* Cell selection, read off the grid alone                                 *)

\* Cell number p in row-major order
CellAt(p) == <<p \div 9, p % 9>>

\* The empty cells of the grid, as row-major positions
EmptyPos == {p \in 0 .. 80 : board[p \div 9][p % 9] = 0}

\* The number of digits that no filled cell of the units of cell p holds
Count(p) == Cardinality({v \in Digits : Free(board, CellAt(p), v)})

Least(S) == CHOOSE p \in S : \A q \in S : p <= q

\* The value returned by the call of _find_mrv_cell just made is a cell
Selected == mrv.fresh /\ ~mrv.cell.none

\* the pruning as stated without regard to the order of the cells
C16_PruningAsClaimed ==
    (mrv.fresh /\ \E p \in EmptyPos : Count(p) = 0) => mrv.cell.none

\* C16: in a state in which some empty cell has no candidate,
\* _find_mrv_cell returns None unless an empty cell with exactly one
\* candidate comes, in row-major order, before the first empty cell without
\* candidates; then it returns the first such single-candidate cell.
C16_ZeroCandidatePruning ==
    (mrv.fresh /\ \E p \in EmptyPos : Count(p) = 0) =>
        LET cnt == [p \in EmptyPos |-> Count(p)]
            z == Least({p \in EmptyPos : cnt[p] = 0})
            ones == {p \in EmptyPos : cnt[p] = 1 /\ p < z}
        IN IF ones = {}
             THEN mrv.cell.none
             ELSE /\ ~mrv.cell.none
                  /\ <<mrv.cell.r, mrv.cell.c>> = CellAt(Least(ones))
                  /\ Len(mrv.cell.cands) = 1

\* _find_mrv_cell returned None on a grid in which an empty cell without
\* candidates is followed by an empty cell that has candidates
C16_Witness ==
    /\ mrv.fresh /\ mrv.cell.none
    /\ \E z \in EmptyPos :
          /\ Count(z) = 0
          /\ \E p \in EmptyPos : p > z /\ Count(p) >= 1

\* C17: when _find_mrv_cell returns (r, c, cands), cell (r, c) is empty,
\* cands is not empty, no empty cell has fewer candidates (and at least
\* one), and no empty cell before (r, c) in row-major order has as many.
C17_MrvChoice ==
    Selected =>
        LET cnt == [p \in EmptyPos |-> Count(p)]
            n == Len(mrv.cell.cands)
            sel == 9 * mrv.cell.r + mrv.cell.c
        IN /\ board[mrv.cell.r][mrv.cell.c] = 0
           /\ n >= 1
           /\ n = cnt[sel]
           /\ \A p \in EmptyPos : ~(cnt[p] # 0 /\ cnt[p] < n)
           /\ \A p \in EmptyPos : p < sel => cnt[p] # n

\* the selected cell has two candidates or more, an earlier empty cell has
\* more candidates and a later empty cell has as many
C17_Witness ==
    /\ Selected
    /\ Len(mrv.cell.cands) >= 2
    /\ \E p \in EmptyPos : p < 9 * mrv.cell.r + mrv.cell.c
                            /\ Count(p) > Len(mrv.cell.cands)
    /\ \E p \in EmptyPos : p > 9 * mrv.cell.r + mrv.cell.c
                            /\ Count(p) = Len(mrv.cell.cands)

----------------------------------------------------------------------------
(* Branching                                                               *)

\* Bit v-1 is clear in row_masks[r] | col_masks[c] | box_masks[box(r,c)]
BitClear(r, c, v) ==
    /\ ~HasBit(row_masks[r], v)
    /\ ~HasBit(col_masks[c], v)
    /\ ~HasBit(box_masks[(r \div 3) * 3 + (c \div 3)], v)

\* The innermost pending invocation
Top == stack[Len(stack)]

\* C18: a node is entered with the selected cell empty and with the list of
\* exactly the digits whose bit is clear in the three masks of the cell, in
\* ascending order; the list of a pending node never changes; each placement
\* puts the next digit of the list into the cell, which holds 0 because the
\* digit before it was undone, and sets its three mask bits; an undo happens
\* only after a recursion that returned False and puts the cell back to 0
\* and clears the three bits; a node is left without cancellation only when
\* its list is used up; after a recursion that returned True grid and masks
\* do not change any more.
C18_BranchingOrder ==
    [][/\ (pc = "call" /\ pc' = "loop") =>
             LET f == stack'[Len(stack')]
             IN /\ Len(stack') = Len(stack) + 1
                /\ board[f.r][f.c] = 0
                /\ f.k = 0
                /\ {f.cands[i] : i \in 1 .. Len(f.cands)}
                      = {v \in Digits : BitClear(f.r, f.c, v)}
                /\ \A i \in 1 .. Len(f.cands) - 1 : f.cands[i] < f.cands[i + 1]
       /\ (pc # "idle" /\ Len(stack') = Len(stack) /\ stack # <<>>) =>
             /\ SubSeq(stack', 1, Len(stack) - 1) = SubSeq(stack, 1, Len(stack) - 1)
             /\ stack'[Len(stack)].cands = Top.cands
             /\ stack'[Len(stack)].r = Top.r /\ stack'[Len(stack)].c = Top.c
       /\ (pc = "place" /\ pc' = "call") =>
             LET v == Top.cands[Top.k + 1]
             IN /\ board[Top.r][Top.c] = 0
                /\ BitClear(Top.r, Top.c, v)
                /\ board' = [board EXCEPT ![Top.r][Top.c] = v]
                /\ stack'[Len(stack)].k = Top.k + 1
                /\ HasBit(row_masks'[Top.r], v)
                /\ HasBit(col_masks'[Top.c], v)
                /\ HasBit(box_masks'[(Top.r \div 3) * 3 + (Top.c \div 3)], v)
       /\ (pc # "idle" /\ <<board, Masks>>' # <<board, Masks>> /\ pc # "place") =>
             /\ pc = "returned" /\ ~ret /\ pc' = "loop"
             /\ board[Top.r][Top.c] = Top.cands[Top.k]
             /\ board' = [board EXCEPT ![Top.r][Top.c] = 0]
             /\ row_masks' = [row_masks EXCEPT ![Top.r] = @ - Bit(Top.cands[Top.k])]
             /\ col_masks' = [col_masks EXCEPT ![Top.c] = @ - Bit(Top.cands[Top.k])]
             /\ box_masks' = [box_masks EXCEPT ![(Top.r \div 3) * 3 + (Top.c \div 3)]
                                                  = @ - Bit(Top.cands[Top.k])]
       /\ (pc = "loop" /\ pc' = "returned" /\ ~stop_requested) =>
             Top.k = Len(Top.cands)
       /\ (pc = "returned" /\ ret /\ pc' # "idle") =>
             /\ UNCHANGED <<board, Masks, ret>>
             /\ pc' = "returned"]_vars

\* the second candidate of a node has been placed after the first was
\* placed, found infeasible and undone
C18_Witness ==
    /\ pc = "call" /\ stack # <<>>
    /\ Top.k = 2
    /\ board[Top.r][Top.c] = Top.cands[2]
    /\ Top.cands[1] < Top.cands[2]
    /\ nplaced >= 3

----------------------------------------------------------------------------
(* The order of the checks of load_board                                   *)

\* The errors of format and the errors of conflict
FormatKinds == {"int", "range", "char"}
ConflictKinds == {"row", "column", "box"}

\* Position p of s holds a clue that an earlier clue of one of its units
\* repeats
ConflictsEarlier(s, p) ==
    /\ s[p + 1] \in ClueChars
    /\ \E q \in 0 .. (p - 1) : s[q + 1] = s[p + 1] /\ SameUnit(q, p)

\* The first offending cell of s in row-major order, 81 if there is none
FirstOffence(s) ==
    LET bad == {p \in 0 .. 80 : s[p + 1] \notin PuzzleChars \/ ConflictsEarlier(s, p)}
    IN IF bad = {} THEN 81 ELSE CHOOSE p \in bad : \A q \in bad : p <= q

\* C19: a string of the wrong length is rejected for its length; for a
\* string of 81 characters with an offending cell the error is the one of
\* the first offending cell in row-major order, a format error if that cell
\* holds an invalid character and a conflict error if it holds a clue that
\* repeats an earlier clue of its row, column or box.
C19_ValidationOrder ==
    LoadDone =>
        /\ Len(last.arg) # 81 => last.err.kind = "length"
        /\ Len(last.arg) = 81 =>
              LET p == FirstOffence(last.arg)
              IN p < 81 =>
                   /\ 9 * last.err.r + last.err.c = p
                   /\ IF last.arg[p + 1] \notin PuzzleChars
                        THEN last.err.kind \in FormatKinds
                        ELSE /\ last.err.kind \in ConflictKinds
                             /\ ConflictsEarlier(last.arg, p)

----------------------------------------------------------------------------
(* The cancellation flag                                                   *)

\* C20: the flag is false after construction; a step that makes it false is
\* the entry of solve(); a step that makes it true changes nothing else of
\* the engine and nothing of a list returned by get_solution(), so it is no
\* step of load_board, of get_solution() or of the search; and while no
\* solve() begins a flag that is true stays true.
C20_FlagLifecycle ==
    /\ ~stop_requested
    /\ [][/\ (stop_requested /\ ~stop_requested') => (pc = "idle" /\ pc' = "call")
          /\ (~stop_requested /\ stop_requested') =>
                /\ UNCHANGED <<board, Masks, pc, stack, ret, last, entry, nplaced>>
                /\ snapshot'.live = snapshot.live
                /\ snapshot'.grid = snapshot.grid
          /\ (stop_requested /\ ~(pc = "idle" /\ pc' = "call")) => stop_requested']_vars

\* the flag, set by a stop(), is still true after a get_solution() and the
\* successful load_board that followed it
C20_Witness ==
    /\ stop_requested
    /\ LoadDone /\ last.err.kind = "ok"
    /\ snapshot.live /\ snapshot.age = 1

----------------------------------------------------------------------------
(* The frame and its worker threads                                        *)

\* C15: under every interleaving of Solve, Clear, Back, the steps of the
\* worker and the completion callback, at most one worker thread is between
\* its start and the queueing of its callback, and only then is the shared
\* solver inside load_board() or solve(); a step taken while solving is true
\* that leaves it true starts no thread; and solving becomes false only by
\* running the callback queued by the thread that was started when solving
\* was set, after that thread has finished with the solver.
C15_SingleSearch ==
    [][/\ Cardinality(running') <= 1
       /\ (wpc' # "none" \/ pc' # "idle") => (solving' /\ running' = {nsolves'})
       /\ (solving /\ solving') => (nsolves' = nsolves /\ running' \subseteq running)
       /\ (~solving /\ solving') => (nsolves' = nsolves + 1 /\ running' = {nsolves'})
       /\ (solving /\ ~solving') =>
             /\ pending # <<>> /\ Head(pending) = nsolves
             /\ pending' = Tail(pending)
             /\ running = {} /\ wpc = "none" /\ pc = "idle"]_vars

\* the second worker is inside solve() after the first has completed
C15_Witness ==
    /\ solving /\ nsolves = 2 /\ running = {2}
    /\ pc = "loop" /\ nplaced >= 1
    /\ pending = <<>>

\* C21: when the frame called stop() for a worker only before that worker
\* entered solve() (after its start, before or after its load_board), the
\* flag is false all through the search and the search ends as one that
\* was never cancelled: it returns True with a valid complete grid if
\* the loaded puzzle has a completion, and otherwise False after exhaustion
\* with the grid as loaded.
C21_EarlyStopDiscarded ==
    /\ (cancel = "early" /\ wpc = "search") => (~stop_requested /\ late = NoLate)
    /\ (cancel = "early" /\ wpc = "solved") =>
          /\ IF HasCompletion(entry.board, 0)
               THEN last.ret /\ ValidComplete(board)
               ELSE ~last.ret /\ AsAtEntry

\* Clear was pressed while the worker had loaded a solvable puzzle and not
\* yet called solve(); the search backtracked and returned True
C21_Witness ==
    /\ cancel = "early" /\ wpc = "solved"
    /\ last.ret /\ nplaced >= 3
    /\ ValidComplete(board)
    /\ \E r \in Idx : \E c \in Idx : entry.board[r][c] = 0

----------------------------------------------------------------------------
(* The grid in every state                                                 *)

\* C22: in every state (after construction, after a successful or failed
\* load_board, at every point of a search and after it) each cell holds a
\* value in 0..9, no row, column or box holds a digit of 1..9 twice, every
\* mask is in 0..511, and from the entry of solve() on every cell that was
\* filled at the entry holds the value it held then.
C22_ConflictFreeGrid ==
    /\ \A x \in Cells : board[x[1]][x[2]] \in 0 .. 9
    /\ \A unit \in Units : \A v \in Digits :
          Cardinality({x \in unit : board[x[1]][x[2]] = v}) <= 1
    /\ \A u \in Idx : /\ row_masks[u] \in 0 .. 511
                      /\ col_masks[u] \in 0 .. 511
                      /\ box_masks[u] \in 0 .. 511
    /\ last.op = "solve" =>
          \A x \in Cells : entry.board[x[1]][x[2]] # 0
                              => board[x[1]][x[2]] = entry.board[x[1]][x[2]]

\* a search of the grid a failed load left has digits placed in several
\* cells that were empty at the entry of solve()
C22_Witness ==
    /\ pc = "call" /\ Len(stack) >= 2
    /\ entry.after \in {"row", "column", "box", "char"}
    /\ Cardinality({x \in Cells : entry.board[x[1]][x[2]] = 0
                                   /\ board[x[1]][x[2]] # 0}) >= 2
    /\ \E x \in Cells : entry.board[x[1]][x[2]] # 0

----------------------------------------------------------------------------
(* Termination                                                             *)

\* The number of filled cells of a grid
Filled(bd) == Cardinality({x \in Cells : bd[x[1]][x[2]] # 0})

\* Every pending invocation but the innermost has its placement standing;
\* the innermost has it while its recursive call runs or has just returned
Standing == IF pc \in {"loop", "place"} THEN Len(stack) - 1 ELSE Len(stack)

\* C23: a solve() that was called returns, whether or not stop() is called;
\* until True is being handed up, the grid holds one filled cell more than
\* at the entry of solve() for each pending invocation with a standing
\* placement, so each invocation is entered with more filled cells than its
\* caller, and the
\* number of pending invocations never exceeds the number of cells that
\* were empty at the entry.
C23_Termination ==
    /\ [](pc # "idle" =>
            /\ ~(pc = "returned" /\ ret) =>
                  Filled(board) = Filled(entry.board) + Standing
            /\ Len(stack) <= N * N - Filled(entry.board))
    /\ (pc # "idle") ~> (pc = "idle" /\ last.op = "solve")

\* an uncancelled search has filled every cell that was empty at the entry
\* of solve(), one pending invocation for each, and is returning True
C23_Witness ==
    /\ pc = "returned" /\ ret /\ ~stop_requested
    /\ Len(stack) = N * N - Filled(entry.board)
    /\ Len(stack) >= 11

----------------------------------------------------------------------------
(* The puzzle bank                                                         *)

\* The strings that may get into the bank
BankUniverse ==
    {strip(s) : s \in ImportInputs}
    \cup UNION {{raw[i][2] : i \in 1 .. Len(raw)} : raw \in RawBanks}
    \cup {[k \in 1 .. 81 |-> "."]}

\* Those of 81 characters among '.', '0'..'9' that a new engine loads
\* without error
LoadableStrings ==
    {q \in BankUniverse : /\ Len(q) = 81
                          /\ \A k \in 1 .. Len(q) : q[k] \in PuzzleChars
                          /\ test_load_board(q).err.kind = "ok"}

\* The stripped dialog texts that are loadable and have a completion, the
\* puzzles for which solve() returns True
SolvableImports ==
    {q \in {strip(s) : s \in ImportInputs} \cap LoadableStrings :
        HasCompletion(test_load_board(q).board, 0)}

\* C24: after the sanitisation and after every import the bank is not
\* empty, every entry is a string of 81 characters among '.', '0'..'9' that
\* load_board accepts, and every entry named Custom is a puzzle that has a
\* solution; an import appends its stripped text as a Custom entry when that
\* text is such a puzzle and otherwise leaves the bank as it was, and
\* nothing else changes the bank.
C24_BankInvariant ==
    /\ [](/\ bank # <<>>
          /\ \A i \in 1 .. Len(bank) :
                /\ bank[i][2] \in LoadableStrings
                /\ bank[i][1] = "Custom" => bank[i][2] \in SolvableImports)
    /\ [][/\ imported' # imported =>
                LET q == strip(imported'.arg)
                IN IF q \in SolvableImports
                     THEN bank' = Append(bank, <<"Custom", q>>)
                     ELSE bank' = bank
          /\ bank' # bank => imported' # imported]_vars

\* the bank sanitised from raw entries got a Custom entry by an import, and
\* the import of a loadable puzzle without solution that followed left it
\* as it was
C24_Witness ==
    /\ Len(bank) >= 2
    /\ bank[1][1] # "Custom"
    /\ bank[Len(bank)][1] = "Custom"
    /\ imported.n >= 2
    /\ strip(imported.arg) \in LoadableStrings \ SolvableImports

====
